---- MODULE Spec2Model ----
(***************************************************************************)
(* echozap: the access-log middleware ZapLoggerWithConfig, which wraps an  *)
(* echo handler, runs it, and writes one structured record to a zap        *)
(* logger.  The model follows the handler closure statement by statement.  *)
(* One invocation is a frame (the closure's locals and its position); the  *)
(* logger and the Config captured by the closure are shared by all         *)
(* invocations.                                                            *)
(***************************************************************************)
EXTENDS Integers, Sequences, FiniteSets, TLC

VARIABLES
    config,   \* the Config value captured by the middleware closure
    log,      \* the *zap.Logger captured by the closure: its With-context
    frame     \* frame[w]: the invocation worker w is running (or ran last)

vars == <<config, log, frame>>

-----------------------------------------------------------------------------
(* Program constants *)

\* bytes.KB of labstack/gommon, the body size limit of the handler
KB == 1024

\* math.MaxInt64 and its successor, in decimal digits: the magnitudes
\* strconv.ParseInt(s, 10, 64) accepts for a positive and a negative number
\* (TLC's own integers are 32 bits wide, so the range test is made on digits)
MaxInt64Digits ==
    <<"9","2","2","3","3","7","2","0","3","6","8","5","4","7","7","5","8","0","7">>
MinInt64Digits ==
    <<"9","2","2","3","3","7","2","0","3","6","8","5","4","7","7","5","8","0","8">>

\* zapcore levels
DebugLevel == "debug"
InfoLevel == "info"
WarnLevel == "warn"
ErrorLevel == "error"
DPanicLevel == "dpanic"

\* echo.HeaderXRequestID is read with Header.Get: "" is an absent header
NoHeader == ""

\* what ctx.Value(key) gives for a key the context does not hold
NilValue == "<nil>"

-----------------------------------------------------------------------------
(* Errors a handler returns *)

NilErr == [kind |-> "nil", msg |-> "", internal |-> ""]
PlainErr == [kind |-> "error", msg |-> "boom", internal |-> ""]
HTTPErrNoInternal == [kind |-> "HTTPError", msg |-> "code=404, message=Not Found", internal |-> ""]
HTTPErrInternal == [kind |-> "HTTPError", msg |-> "code=500, message=oops", internal |-> "db down"]

Errors == {NilErr, PlainErr, HTTPErrNoInternal, HTTPErrInternal}

-----------------------------------------------------------------------------
(* zap fields *)

Field(name, kind, s, n) == [name |-> name, kind |-> kind, s |-> s, n |-> n]

ZapString(name, s) == Field(name, "string", s, 0)
ZapInt(name, n) == Field(name, "int", "", n)
ZapAny(name, v) == Field(name, "any", v, 0)
ZapNamedError(name, msg) == Field(name, "error", msg, 0)
\* time.Now() and time.Since(start): the clock's reading is not modelled
ZapClock(name) == Field(name, "clock", "", 0)

\* zap.Error(err): a no-op Skip field for a nil error, else the field "error"
ZapError(err) ==
    IF err.kind = "nil" THEN Field("", "skip", "", 0)
    ELSE ZapNamedError("error", err.msg)

\* log.With(f): a child logger; the receiver is left as it was
With(lg, f) == Append(lg, f)

-----------------------------------------------------------------------------
(* strconv.ParseInt(s, 10, 64) on a string given as its characters *)

Digits == {"0", "1", "2", "3", "4", "5", "6", "7", "8", "9"}

DigitVal(c) ==
    CASE c = "0" -> 0 [] c = "1" -> 1 [] c = "2" -> 2 [] c = "3" -> 3
      [] c = "4" -> 4 [] c = "5" -> 5 [] c = "6" -> 6 [] c = "7" -> 7
      [] c = "8" -> 8 [] c = "9" -> 9

RECURSIVE StripZeros(_)
StripZeros(s) ==
    IF s # <<>> /\ Head(s) = "0" THEN StripZeros(Tail(s)) ELSE s

RECURSIVE LexLeq(_, _)
\* a <= b for two digit strings of the same length
LexLeq(a, b) ==
    \/ a = <<>>
    \/ DigitVal(Head(a)) < DigitVal(Head(b))
    \/ Head(a) = Head(b) /\ LexLeq(Tail(a), Tail(b))

\* the number written by the digits a is at most the one written by limit
MagnitudeLeq(a, limit) ==
    LET x == StripZeros(a)
    IN  \/ Len(x) < Len(limit)
        \/ Len(x) = Len(limit) /\ LexLeq(x, limit)

RECURSIVE DigitsValue(_, _)
DigitsValue(s, acc) ==
    IF s = <<>> THEN acc ELSE DigitsValue(Tail(s), acc * 10 + DigitVal(Head(s)))

\* ok is err == nil.  On a syntax error the result is 0; on a range error it is
\* the nearest int64, which the handler discards (it is given as 0 here).
ParseInt(s) ==
    LET neg == s # <<>> /\ Head(s) = "-"
        signed == s # <<>> /\ Head(s) \in {"+", "-"}
        rest == IF signed THEN Tail(s) ELSE s
        syntax == rest # <<>> /\ \A i \in 1..Len(rest) : rest[i] \in Digits
        inRange == MagnitudeLeq(rest, IF neg THEN MinInt64Digits ELSE MaxInt64Digits)
    IN  IF ~syntax THEN [ok |-> FALSE, n |-> 0]
        ELSE IF ~inRange THEN [ok |-> FALSE, n |-> 0]
        ELSE [ok |-> TRUE,
              n |-> IF neg THEN -DigitsValue(rest, 0) ELSE DigitsValue(rest, 0)]

-----------------------------------------------------------------------------
(* Config: Skipper, ContextKeys, PrintBody, LogLevel *)

\* context keys are interface{} values: strings and ints here
KeyS(s) == [kind |-> "string", s |-> s, n |-> 0]
KeyI(n) == [kind |-> "int", s |-> "", n |-> n]

UserKey == KeyS("user")
TraceKey == KeyI(7)
AllKeys == {UserKey, TraceKey}

RECURSIVE Itoa(_)
Itoa(n) ==
    LET d == <<"0", "1", "2", "3", "4", "5", "6", "7", "8", "9">>[(n % 10) + 1]
    IN  IF n < 10 THEN d ELSE Itoa(n \div 10) \o d

\* fmt.Sprintf("%v", key)
FormatKey(key) == IF key.kind = "int" THEN Itoa(key.n) ELSE key.s

\* a Skipper of the application: skip the requests answered below 400
SkipSuccess(f) == f.res.status < 400

Skippers == {"DefaultSkipper", "SkipSuccess", "SkipAll"}

\* config.Skipper(c)
CallSkipper(skipper, f) ==
    CASE skipper = "DefaultSkipper" -> FALSE
      [] skipper = "SkipSuccess" -> SkipSuccess(f)
      [] skipper = "SkipAll" -> TRUE

DefaultLogLevelMut(status) ==
    IF status > 500 THEN ErrorLevel
    ELSE IF status > 400 THEN WarnLevel
    ELSE InfoLevel

DefaultLogLevel(status) ==
    IF status >= 500 THEN ErrorLevel
    ELSE IF status >= 400 THEN WarnLevel
    ELSE InfoLevel

\* the mapper of TestCustomLogLevels
CustomLogLevel(status) ==
    IF status >= 500 THEN DPanicLevel
    ELSE IF status >= 400 THEN InfoLevel
    ELSE DebugLevel

\* a mapper that does not look at the status
QuietLogLevel(status) == DebugLevel

LogLevels == {"nil", "DefaultLogLevel", "CustomLogLevel", "QuietLogLevel"}

\* config.LogLevel(n), for a LogLevel that is not nil
CallLogLevel(mapper, n) ==
    CASE mapper = "DefaultLogLevel" -> DefaultLogLevel(n)
      [] mapper = "CustomLogLevel" -> CustomLogLevel(n)
      [] mapper = "QuietLogLevel" -> QuietLogLevel(n)

KeyLists == {<<>>, <<TraceKey, UserKey>>}

Configs ==
    [Skipper : Skippers, ContextKeys : KeyLists, PrintBody : BOOLEAN,
     LogLevel : LogLevels]

\* var DefaultConfig
DefaultConfig ==
    [Skipper |-> "DefaultSkipper", ContextKeys |-> <<>>, PrintBody |-> TRUE,
     LogLevel |-> "DefaultLogLevel"]

-----------------------------------------------------------------------------
(* One invocation of the handler closure *)

\* the goroutines serving requests, named by the tag their requests carry
Workers == {"a", "b"}

\* the log calls and the calls to the echo context an invocation makes, in order
Event(ev, level, msg, context) ==
    [ev |-> ev, level |-> level, msg |-> msg, context |-> context]

ErrorReport(err) == Event("c.Error", "", err.msg, <<>>)
SkipperCall == Event("Skipper", "", "", <<>>)
\* a record handed to the logger lg: its With-context, then the call's fields
LogCall(lg, level, msg, fields) == Event("log", level, msg, lg \o fields)

NoRequest ==
    [remoteIP |-> "", host |-> "", method |-> "", uri |-> "", userAgent |-> "", requestID |-> NoHeader, contentLength |-> <<>>,
     body |-> "", bodyErr |-> FALSE, ctx |-> [k \in AllKeys |-> NilValue]]

NoResponse == [status |-> 0, requestID |-> NoHeader, size |-> 0]

IdleFrame ==
    [pc |-> "idle", req |-> NoRequest, res |-> NoResponse, err |-> NilErr,
     headerContentLength |-> 0, fields |-> <<>>, events |-> <<>>, ret |-> NilErr]

\* c is handed to the closure: start := time.Now()
EnterStep(req) == [IdleFrame EXCEPT !.pc = "next", !.req = req]

\* err := next(c): the handler leaves its response in c.Response()
NextStep(f, res, err) == [f EXCEPT !.pc = "report", !.res = res, !.err = err]

\* if err != nil { c.Error(err) }
ReportStep(f) ==
    [f EXCEPT !.pc = "skip",
              !.events = IF f.err # NilErr THEN Append(@, ErrorReport(f.err)) ELSE @]

SkipStepMut(cfg, f) ==
    IF CallSkipper(cfg.Skipper, f)
    THEN [f EXCEPT !.pc = "done", !.ret = NilErr, !.events = Append(@, SkipperCall)]
    ELSE [f EXCEPT !.pc = "fields", !.events = Append(@, SkipperCall)]

\* if config.Skipper(c) { return err }
SkipStep(cfg, f) ==
    IF CallSkipper(cfg.Skipper, f)
    THEN [f EXCEPT !.pc = "done", !.ret = f.err, !.events = Append(@, SkipperCall)]
    ELSE [f EXCEPT !.pc = "fields", !.events = Append(@, SkipperCall)]

RECURSIVE getContextFieldsMut(_, _)
getContextFieldsMut(ctx, keys) ==
    IF keys = <<>> THEN <<>>
    ELSE <<ZapAny(FormatKey(Head(keys)), ctx[Head(keys)])>>
             \o getContextFieldsMut(ctx, Tail(keys))

RECURSIVE getContextFields(_, _)
getContextFields(ctx, keys) ==
    IF keys = <<>> THEN <<>>
    ELSE LET v == ctx[Head(keys)]
         IN  (IF v = NilValue THEN <<>> ELSE <<ZapAny(FormatKey(Head(keys)), v)>>)
                 \o getContextFields(ctx, Tail(keys))

\* the nine fields every record starts with
BaseFields(f) ==
    <<ZapClock("time"),
      ZapString("remote_ip", f.req.remoteIP),
      ZapString("host", f.req.host),
      ZapString("method", f.req.method),
      ZapString("uri", f.req.uri),
      ZapString("user_agent", f.req.userAgent),
      ZapInt("status", f.res.status),
      ZapClock("latency"),
      ZapClock("latency_human")>>

\* req.Header.Get(echo.HeaderContentLength) parsed, 0 on a parse error
HeaderContentLength(raw) ==
    LET r == ParseInt(raw) IN IF r.ok THEN r.n ELSE 0

\* fields := ...; the context fields; bytes_in and bytes_out
FieldsStep(cfg, f) ==
    LET n == HeaderContentLength(f.req.contentLength)
    IN  [f EXCEPT !.pc = "body",
                  !.headerContentLength = n,
                  !.fields = BaseFields(f)
                                 \o getContextFields(f.req.ctx, cfg.ContextKeys)
                                 \o <<ZapInt("bytes_in", n),
                                      ZapInt("bytes_out", f.res.size)>>]

BodyStepMut(cfg, lg, f) ==
    IF cfg.PrintBody /\ f.headerContentLength > 0 /\ f.headerContentLength <= KB
    THEN IF f.req.bodyErr
         THEN [f EXCEPT !.pc = "error",
                        !.events = Append(@, LogCall(lg, WarnLevel,
                                       "echozap error decoding request body",
                                       <<ZapNamedError("error", "read error")>>))]
         ELSE [f EXCEPT !.pc = "error",
                        !.fields = Append(@, ZapString("body", f.req.body))]
    ELSE [f EXCEPT !.pc = "error"]

\* the body, read when PrintBody is set and 0 < Content-Length < 1 KB
BodyStep(cfg, lg, f) ==
    IF cfg.PrintBody /\ f.headerContentLength > 0 /\ f.headerContentLength < KB
    THEN IF f.req.bodyErr
         THEN [f EXCEPT !.pc = "error",
                        !.events = Append(@, LogCall(lg, WarnLevel,
                                       "echozap error decoding request body",
                                       <<ZapNamedError("error", "read error")>>))]
         ELSE [f EXCEPT !.pc = "error",
                        !.fields = Append(@, ZapString("body", f.req.body))]
    ELSE [f EXCEPT !.pc = "error"]

\* if err != nil: the error field, c.Error(err) again, and internal_error
ErrorStep(f) ==
    IF f.err # NilErr
    THEN [f EXCEPT !.pc = "request_id",
                   !.fields = @ \o <<ZapError(f.err)>>
                                \o (IF f.err.kind = "HTTPError" /\ f.err.internal # ""
                                    THEN <<ZapNamedError("internal_error", f.err.internal)>>
                                    ELSE <<>>),
                   !.events = Append(@, ErrorReport(f.err))]
    ELSE [f EXCEPT !.pc = "request_id"]

RequestIDStepMut(f) ==
    LET id == IF f.req.requestID = NoHeader THEN f.res.requestID ELSE f.req.requestID
    IN  [f EXCEPT !.pc = "emit", !.fields = Append(@, ZapString("request_id", id))]

\* id := req.Header.Get(X-Request-Id); if id == "" { the response's; the field }
RequestIDStep(f) ==
    IF f.req.requestID = NoHeader
    THEN [f EXCEPT !.pc = "emit",
                   !.fields = Append(@, ZapString("request_id", f.res.requestID))]
    ELSE [f EXCEPT !.pc = "emit"]

\* the message of the switch on n
Message(n) ==
    IF n >= 500 THEN "Server error"
    ELSE IF n >= 400 THEN "Client error"
    ELSE IF n >= 300 THEN "Redirection"
    ELSE "Success"

SelectLogLevelMut(cfg, n) == DefaultLogLevel(n)

\* logLevel: config.LogLevel(n), or DefaultLogLevel(n) for a nil LogLevel
SelectLogLevel(cfg, n) ==
    IF cfg.LogLevel # "nil" THEN CallLogLevel(cfg.LogLevel, n) ELSE DefaultLogLevel(n)

\* logWithLevel(logger, level, msg, fields...): logger.Check and ce.Write, which
\* is what logger.Info, logger.Warn, ... do for their own level
logWithLevel(logger, level, msg, fields) == LogCall(logger, level, msg, fields)

EmitStepNoDefault(cfg, lg, f) ==
    LET n == f.res.status
        logLevel == SelectLogLevel(cfg, n)
        calls == IF n >= 500
                 THEN <<logWithLevel(With(lg, ZapError(f.err)), logLevel, "Server error", f.fields)>>
                 ELSE IF n >= 400
                 THEN <<logWithLevel(lg, logLevel, "Client error", f.fields)>>
                 ELSE IF n >= 300
                 THEN <<logWithLevel(lg, logLevel, "Redirection", f.fields)>>
                 ELSE <<>>
    IN  [f EXCEPT !.pc = "done", !.ret = NilErr, !.events = @ \o calls]

EmitStepReturnsErr(cfg, lg, f) ==
    LET n == f.res.status
        logLevel == SelectLogLevel(cfg, n)
    IN  [f EXCEPT !.pc = "done", !.ret = f.err,
                  !.events = Append(@, logWithLevel(lg, logLevel, Message(n), f.fields))]

\* n := res.Status; the level; the switch; return nil
EmitStep(cfg, lg, f) ==
    LET n == f.res.status
        logLevel == SelectLogLevel(cfg, n)
        call == IF n >= 500
                THEN logWithLevel(With(lg, ZapError(f.err)), logLevel, "Server error", f.fields)
                ELSE IF n >= 400
                THEN logWithLevel(lg, logLevel, "Client error", f.fields)
                ELSE IF n >= 300
                THEN logWithLevel(lg, logLevel, "Redirection", f.fields)
                ELSE logWithLevel(lg, logLevel, "Success", f.fields)
    IN  [f EXCEPT !.pc = "done", !.ret = NilErr, !.events = Append(@, call)]

\* the statement at f.pc, run with the configuration cfg and the logger lg
Step(cfg, lg, f) ==
    CASE f.pc = "report" -> ReportStep(f)
      [] f.pc = "skip" -> SkipStep(cfg, f)
      [] f.pc = "fields" -> FieldsStep(cfg, f)
      [] f.pc = "body" -> BodyStep(cfg, lg, f)
      [] f.pc = "error" -> ErrorStep(f)
      [] f.pc = "request_id" -> RequestIDStep(f)
      [] f.pc = "emit" -> EmitStep(cfg, lg, f)

LogAfterStepMut(lg, f) ==
    IF f.pc = "emit" /\ f.res.status >= 500 THEN With(lg, ZapError(f.err)) ELSE lg

\* the closure's variable log after the statement at f.pc: no statement assigns
\* it (log.With gives a new logger, used for the one call)
LogAfterStep(lg, f) == lg

RECURSIVE Run(_, _, _)
\* the closure run from f to its return
Run(cfg, lg, f) ==
    IF f.pc = "done" THEN [frame |-> f, log |-> lg]
    ELSE Run(cfg, LogAfterStep(lg, f), Step(cfg, lg, f))

-----------------------------------------------------------------------------
(* The requests and the handler outcomes enumerated *)

ContentLengths ==
    { <<>>, <<"0">>, <<"5", "0", "0">>, <<"1", "0", "2", "3">>, <<"1", "0", "2", "4">>,
      <<"+", "7">>, <<"1", "2", "a">>,
      <<"9","2","2","3","3","7","2","0","3","6","8","5","4","7","7","5","8","0","8">> }

Statuses == {100, 199, 200, 299, 300, 399, 400, 499, 500, 599}

Requests(w) ==
    [remoteIP : {"10.0.0." \o w}, host : {"example.com"}, method : {"GET"},
     uri : {"/" \o w}, userAgent : {"curl"},
     requestID : {NoHeader, "req-" \o w},
     contentLength : ContentLengths,
     body : {"body-" \o w},
     bodyErr : BOOLEAN,
     ctx : [AllKeys -> {NilValue, "ctx-" \o w}]]

Responses(w) ==
    [status : Statuses, requestID : {NoHeader, "gen-" \o w}, size : {42}]

\* the concurrent specification enumerates fewer of them
ConcRequests(w) ==
    { r \in Requests(w) :
        /\ r.contentLength \in {<<>>, <<"5", "0", "0">>}
        /\ ~r.bodyErr
        /\ r.ctx[UserKey] = NilValue }

ConcResponses(w) ==
    { r \in Responses(w) : r.status \in {200, 500} /\ r.size = 42 /\ r.requestID # NoHeader }

ConcErrors(w) ==
    {NilErr,
     [kind |-> "HTTPError", msg |-> "code=500, message=" \o w, internal |-> "db-" \o w]}

ConcConfigs ==
    { c \in Configs :
        /\ c.Skipper \in {"DefaultSkipper", "SkipSuccess"}
        /\ c.PrintBody
        /\ c.ContextKeys # <<>>
        /\ c.LogLevel = "DefaultLogLevel" }

\* the logger given to ZapLoggerWithConfig: one built with a field of its own
Loggers == {<<ZapString("service", "api")>>}

-----------------------------------------------------------------------------
(* Actions *)

Main == "a"

Init ==
    /\ config \in Configs
    /\ log \in Loggers
    /\ frame = [w \in Workers |-> IdleFrame]

\* a request handled from the call of the closure to its return
Invoke(w) ==
    /\ frame[w].pc = "idle"
    /\ \E req \in Requests(w), res \in Responses(w), err \in Errors :
          LET r == Run(config, log, NextStep(EnterStep(req), res, err))
          IN  /\ frame' = [frame EXCEPT ![w] = r.frame]
              /\ log' = r.log
    /\ UNCHANGED config

\* the caller drops the returned closure frame
Return(w) ==
    /\ frame[w].pc = "done"
    /\ frame' = [frame EXCEPT ![w] = IdleFrame]
    /\ UNCHANGED <<config, log>>

Next == Invoke(Main) \/ Return(Main)

Spec == Init /\ [][Next]_vars

(* The same closure run by two goroutines, a statement at a time *)

InitConc ==
    /\ config \in ConcConfigs
    /\ log \in Loggers
    /\ frame = [w \in Workers |-> IdleFrame]

Enter(w) ==
    /\ frame[w].pc = "idle"
    /\ \E req \in ConcRequests(w) : frame' = [frame EXCEPT ![w] = EnterStep(req)]
    /\ UNCHANGED <<config, log>>

CallNext(w) ==
    /\ frame[w].pc = "next"
    /\ \E res \in ConcResponses(w), err \in ConcErrors(w) :
          frame' = [frame EXCEPT ![w] = NextStep(frame[w], res, err)]
    /\ UNCHANGED <<config, log>>

Advance(w) ==
    /\ frame[w].pc \notin {"idle", "next", "done"}
    /\ frame' = [frame EXCEPT ![w] = Step(config, log, frame[w])]
    /\ log' = LogAfterStep(log, frame[w])
    /\ UNCHANGED config

NextConc == \E w \in Workers : Enter(w) \/ CallNext(w) \/ Advance(w) \/ Return(w)

SpecConc == InitConc /\ [][NextConc]_vars

-----------------------------------------------------------------------------
(* What an invocation left behind *)

Messages == {"Success", "Redirection", "Client error", "Server error"}
BodyWarning == "echozap error decoding request body"

Returned(f) == f.pc = "done"
Skipped(f) == Returned(f) /\ CallSkipper(config.Skipper, f)
Logged(f) == Returned(f) /\ ~CallSkipper(config.Skipper, f)

LogCalls(f) == SelectSeq(f.events, LAMBDA e : e.ev = "log")
AccessRecords(f) == SelectSeq(f.events, LAMBDA e : e.ev = "log" /\ e.msg \in Messages)
Warnings(f) == SelectSeq(f.events, LAMBDA e : e.ev = "log" /\ e.msg = BodyWarning)
ErrorReports(f) == SelectSeq(f.events, LAMBDA e : e.ev = "c.Error")

\* the fields called name of a record, in order
FieldsNamed(rec, name) == SelectSeq(rec.context, LAMBDA x : x.name = name)

\* position of the first event of kind ev in f.events, 0 when there is none
FirstIndex(f, ev) ==
    IF \E i \in 1..Len(f.events) : f.events[i].ev = ev
    THEN CHOOSE i \in 1..Len(f.events) :
            /\ f.events[i].ev = ev
            /\ \A j \in 1..(i - 1) : f.events[j].ev # ev
    ELSE 0

Cur == frame[Main]

-----------------------------------------------------------------------------
(* Claims about one invocation, checked under Spec *)

\* C1: when the skip predicate returns true the invocation makes no log call
\* (no access record, no body warning) and returns the very error the inner
\* handler returned, nil included.
C1_SkipForwardsHandlerError ==
    Skipped(Cur) => LogCalls(Cur) = <<>> /\ Cur.ret = Cur.err

C1_Witness ==
    /\ Skipped(Cur)
    /\ Cur.err = HTTPErrInternal
    /\ Cur.ret = HTTPErrInternal
    /\ Cur.res.status = 500
    /\ Cur.req.contentLength = <<"5", "0", "0">>
    /\ Cur.req.bodyErr

C3_ErrorReportedExactlyOnce ==
    Returned(Cur) =>
        IF Cur.err = NilErr
        THEN ErrorReports(Cur) = <<>>
        ELSE /\ Len(ErrorReports(Cur)) = 1
             /\ FirstIndex(Cur, "c.Error") = 1
             /\ FirstIndex(Cur, "c.Error") < FirstIndex(Cur, "Skipper")

\* C4: an invocation makes exactly one access-log call when the skip predicate
\* is false and none when it is true; the call carries the selected level and
\* one of the four messages, for every status and handler error; any other
\* log call is the body-read warning, made at most once.
C4_OneAccessRecord ==
    Returned(Cur) =>
        /\ Len(AccessRecords(Cur)) = (IF Skipped(Cur) THEN 0 ELSE 1)
        /\ Logged(Cur) =>
              /\ AccessRecords(Cur)[1].level = SelectLogLevel(config, Cur.res.status)
              /\ AccessRecords(Cur)[1].msg \in Messages
        /\ Len(LogCalls(Cur)) = Len(AccessRecords(Cur)) + Len(Warnings(Cur))
        /\ Len(Warnings(Cur)) <= 1
        /\ Warnings(Cur) # <<>> => Cur.req.bodyErr /\ Warnings(Cur)[1].level = WarnLevel

C4_Witness ==
    /\ Logged(Cur)
    /\ Cur.err = PlainErr
    /\ Cur.res.status = 100
    /\ Len(AccessRecords(Cur)) = 1
    /\ Len(Warnings(Cur)) = 1

\* C5: with the default mapping, configured or standing in for a nil LogLevel,
\* the record's level is Error for a status >= 500, Warn for 400 <= status <
\* 500 and Info for every other status.
C5_DefaultLevels ==
    Logged(Cur) /\ config.LogLevel \in {"nil", "DefaultLogLevel"} =>
        LET status == Cur.res.status
            level == AccessRecords(Cur)[1].level
        IN  /\ status >= 500 => level = ErrorLevel
            /\ status >= 400 /\ status < 500 => level = WarnLevel
            /\ status < 400 => level = InfoLevel

C5_Witness ==
    /\ Logged(Cur)
    /\ config.LogLevel = "nil"
    /\ Cur.res.status = 400
    /\ AccessRecords(Cur)[1].level = WarnLevel

\* C6: with a custom mapper the record's level is the mapper's output for the
\* response status, while the message follows the status thresholds alone
\* (>= 500 Server error, >= 400 Client error, >= 300 Redirection, else
\* Success), whatever the mapper and the level.
C6_CustomLevelFixedMessage ==
    Logged(Cur) =>
        LET status == Cur.res.status
            rec == AccessRecords(Cur)[1]
        IN  /\ config.LogLevel = "CustomLogLevel" =>
                  rec.level = (IF status >= 500 THEN DPanicLevel
                               ELSE IF status >= 400 THEN InfoLevel
                               ELSE DebugLevel)
            /\ config.LogLevel = "QuietLogLevel" => rec.level = DebugLevel
            /\ status >= 500 => rec.msg = "Server error"
            /\ status >= 400 /\ status < 500 => rec.msg = "Client error"
            /\ status >= 300 /\ status < 400 => rec.msg = "Redirection"
            /\ status < 300 => rec.msg = "Success"

C6_Witness ==
    /\ Logged(Cur)
    /\ config.LogLevel = "CustomLogLevel"
    /\ Cur.res.status = 499
    /\ AccessRecords(Cur)[1].level = InfoLevel
    /\ AccessRecords(Cur)[1].msg = "Client error"

\* C7: in the non-skip path the middleware returns nil whatever the handler
\* returned and whatever the status; the handler's error comes back to the
\* caller only in the skip path.
C7_LoggedReturnsNil ==
    /\ Logged(Cur) => Cur.ret = NilErr
    /\ Returned(Cur) /\ Cur.ret # NilErr => Skipped(Cur)

C7_Witness ==
    /\ Logged(Cur)
    /\ Cur.err = HTTPErrNoInternal
    /\ Cur.ret = NilErr
    /\ Cur.res.status = 200

\* the Content-Length values enumerated, read as base-10 integers by hand:
\* 0 for an absent or malformed header and for one beyond the int64 range
DeclaredLength(raw) ==
    CASE raw = <<"5", "0", "0">> -> 500
      [] raw = <<"1", "0", "2", "3">> -> 1023
      [] raw = <<"1", "0", "2", "4">> -> 1024
      [] raw = <<"+", "7">> -> 7
      [] OTHER -> 0

\* C8: a body field is attached only when PrintBody is set and the declared
\* content length (0 when absent or unparseable) is above 0 and below 1024;
\* then a successful read attaches the request body text, and a failed read
\* attaches no body field, logs one warning, and still leaves the access
\* record emitted and nil returned.
C8_BodyOnlyWithinLimit ==
    Logged(Cur) =>
        LET rec == AccessRecords(Cur)[1]
            n == DeclaredLength(Cur.req.contentLength)
            wanted == config.PrintBody /\ n > 0 /\ n < 1024
            bodies == FieldsNamed(rec, "body")
        IN  /\ FieldsNamed(rec, "bytes_in") = <<ZapInt("bytes_in", n)>>
            /\ ~wanted => bodies = <<>> /\ Warnings(Cur) = <<>>
            /\ wanted /\ ~Cur.req.bodyErr =>
                  bodies = <<ZapString("body", Cur.req.body)>> /\ Warnings(Cur) = <<>>
            /\ wanted /\ Cur.req.bodyErr =>
                  /\ bodies = <<>>
                  /\ Len(Warnings(Cur)) = 1
                  /\ Len(AccessRecords(Cur)) = 1
                  /\ Cur.ret = NilErr

C8_Witness ==
    /\ Logged(Cur)
    /\ config.PrintBody
    /\ Cur.req.contentLength = <<"1", "0", "2", "3">>
    /\ ~Cur.req.bodyErr
    /\ FieldsNamed(AccessRecords(Cur)[1], "body") = <<ZapString("body", "body-a")>>

\* the text of the context keys enumerated, written out by hand
KeyText(key) == IF key = TraceKey THEN "7" ELSE "user"

\* C9: the record holds one extra field for each configured context key whose
\* value in the request context is not nil, named by the key's text and
\* carrying the value, in the order of the configured keys; a key with no
\* value adds no field.
C9_ContextFieldsInKeyOrder ==
    Logged(Cur) =>
        LET rec == AccessRecords(Cur)[1]
            present == SelectSeq(config.ContextKeys,
                                 LAMBDA k : Cur.req.ctx[k] # NilValue)
            extra == SelectSeq(rec.context, LAMBDA x : x.kind = "any")
        IN  /\ Len(extra) = Len(present)
            /\ \A i \in 1..Len(present) :
                  extra[i] = ZapAny(KeyText(present[i]), Cur.req.ctx[present[i]])

C9_Witness ==
    /\ Logged(Cur)
    /\ config.ContextKeys = <<TraceKey, UserKey>>
    /\ Cur.req.ctx[TraceKey] = NilValue
    /\ Cur.req.ctx[UserKey] = "ctx-a"
    /\ SelectSeq(AccessRecords(Cur)[1].context, LAMBDA x : x.kind = "any")
           = <<ZapAny("user", "ctx-a")>>

-----------------------------------------------------------------------------
(* Claims about invocations running together, checked under SpecConc *)

Other(w) == CHOOSE v \in Workers : v # w

\* every text the requests, responses and errors of worker w may carry
OwnTexts(w) ==
    {"10.0.0." \o w, "/" \o w, "req-" \o w, "gen-" \o w, "body-" \o w, "ctx-" \o w,
     "code=500, message=" \o w, "db-" \o w}

\* the record rec, emitted by worker w, is made of the logger's own context and
\* of w's request and response alone
OwnRecord(w, rec) ==
    /\ \A i \in 1..Len(rec.context) : rec.context[i].s \notin OwnTexts(Other(w))
    /\ SubSeq(rec.context, 1, Len(log)) = log
    /\ FieldsNamed(rec, "status") = <<ZapInt("status", frame[w].res.status)>>
    /\ FieldsNamed(rec, "uri") = <<ZapString("uri", "/" \o w)>>
    /\ FieldsNamed(rec, "bytes_out") = <<ZapInt("bytes_out", frame[w].res.size)>>
    /\ FieldsNamed(rec, "bytes_in")
           = <<ZapInt("bytes_in", DeclaredLength(frame[w].req.contentLength))>>
    /\ Len(FieldsNamed(rec, "error"))
           = (IF frame[w].err = NilErr THEN 0
              ELSE IF frame[w].res.status >= 500 THEN 2 ELSE 1)
    /\ \A i \in 1..Len(rec.context) :
           rec.context[i].kind = "error" =>
               rec.context[i].s \in {frame[w].err.msg, frame[w].err.internal}

IndependentRecords ==
    \A w \in Workers :
        /\ \A i \in 1..Len(AccessRecords(frame[w])) : OwnRecord(w, AccessRecords(frame[w])[i])
        /\ Logged(frame[w]) => Len(AccessRecords(frame[w])) = 1

\* C10: invocations through one middleware instance are independent under any
\* interleaving: each makes its own log record, whose fields come from its own
\* request and response only, and none modifies the configuration or the
\* shared logger.
C10_RequestsIndependent ==
    /\ []IndependentRecords
    /\ [][log' = log /\ config' = config]_vars

C10_Witness ==
    /\ \A w \in Workers : Logged(frame[w]) /\ Len(AccessRecords(frame[w])) = 1
    /\ frame["a"].res.status = 500
    /\ frame["a"].err # NilErr
    /\ frame["b"].res.status = 200
    /\ frame["b"].err = NilErr
    /\ frame["a"].events[Len(frame["a"].events)].context
           # frame["b"].events[Len(frame["b"].events)].context

====
